---- MODULE Spec2Model ----
(***************************************************************************)
(* Model of the diagnostics engine of zeta-note (src/src/diag.rs): the     *)
(* three rules check_title, check_headings and check_intern_links, the     *)
(* per-file DiagCollection, and to_publish.                                *)
(*                                                                         *)
(* One note (CurFile, named CurName) is the note under check.  Its headings and *)
(* internal links are sequences in document order; a heading's id is its   *)
(* position in `headings`, a link's id its position in `links`.  Every     *)
(* element occupies one line of the note's text, headings first, so the    *)
(* span of heading i is <<i-1, i>> and that of link j is                   *)
(* <<Len(headings)+j-1, Len(headings)+j>> (half-open ranges of positions). *)
(***************************************************************************)
EXTENDS Naturals, Sequences, FiniteSets, Bags, TLC

VARIABLES
    headings,          \* NoteStructure: headings of the current note, document order
    links,             \* NoteStructure: internal links of the current note
    vault,             \* NoteIndex + facts of the other notes: name -> heading texts
    version,           \* note.text().version of the current note
    indexed,           \* whether the current file is in the note index
    pc,                \* position of the recomputation driver
    hd_ids_to_inspect, \* check_headings: the HashSet worklist
    duplicates,        \* check_headings: the Vec of duplicate headings
    iters,             \* check_headings: iterations of the while loop so far
    title_diags,       \* result of check_title of the running cycle
    heading_diags,     \* result of check_headings of the running cycle
    link_diags,        \* result of check_intern_links of the running cycle
    store,             \* DiagCollection.store entry of the current file
    store_version,     \* text version of the snapshot the stored set came from
    previous,          \* set the same snapshot produced on the cycle before
    report             \* value returned by the latest to_publish call

vars == <<headings, links, vault, version, indexed, pc, hd_ids_to_inspect,
          duplicates, iters, title_diags, heading_diags, link_diags, store,
          store_version, previous, report>>

----------------------------------------------------------------------------
(* Bounds of the model *)

MaxHeadings == 3
MaxLinks == 2
MaxVersion == 2

(* Option<T> *)
None == <<>>
Some(x) == <<x>>
IsSome(o) == o # None
Unwrap(o) == o[1]

Texts == {"a", "b"}
Levels == {1, 2, 3}
CurName == "n1"
CurFile == "/vault/n1.md"
OtherName == "n2"
LinkTexts == {"a", "c"}

HeadingData == [level : Levels, text : Texts]
LinkData == [note_name : {None, Some(OtherName)},
             heading : {None} \cup {Some(t) : t \in LinkTexts}]

SeqsUpTo(S, n) == UNION {[1..k -> S] : k \in 0..n}

Min(S) == CHOOSE x \in S : \A y \in S : x <= y

RECURSIVE SortedSeq(_)
SortedSeq(S) == IF S = {} THEN <<>>
                ELSE <<Min(S)>> \o SortedSeq(S \ {Min(S)})

Range(s) == {s[i] : i \in 1..Len(s)}

----------------------------------------------------------------------------
(* The fact view of the current note *)

HeadingSpan(i) == <<i - 1, i>>
LinkSpan(hs, j) == <<Len(hs) + j - 1, Len(hs) + j>>

\* Node<Heading>: the heading with its span
heading_by_id(hs, id) ==
    [level |-> hs[id].level, text |-> hs[id].text, span |-> HeadingSpan(id)]

\* ids of the headings satisfying the predicate, given as the set of the
\* Heading values it accepts, in document order
headings_matching(hs, pred) ==
    SortedSeq({i \in 1..Len(hs) : hs[i] \in pred})

\* the headings with the given ids, in the order of the ids
headings_with_ids(hs, ids) ==
    [k \in 1..Len(ids) |-> heading_by_id(hs, ids[k])]

\* Node<InternLink> of every link, in document order
intern_links_with_ids(hs, ls) ==
    [j \in 1..Len(ls) |->
        [note_name |-> ls[j].note_name, heading |-> ls[j].heading,
         span |-> LinkSpan(hs, j)]]

\* number of lines of the text, the extent of the position index
TextLines(hs, ls) == Len(hs) + Len(ls)

\* NoteIndex::find_by_name
find_by_name(vlt, isIndexed, name) ==
    IF name = CurName THEN (IF isIndexed THEN Some(name) ELSE None)
    ELSE IF name \in DOMAIN vlt THEN Some(name)
    ELSE None

\* NoteFactsExt::heading_with_text on the note with the given id
heading_with_text(vlt, hs, id, text) ==
    IF id = CurName
    THEN (IF \E i \in 1..Len(hs) : hs[i].text = text THEN Some(text) ELSE None)
    ELSE (IF text \in vlt[id] THEN Some(text) ELSE None)

----------------------------------------------------------------------------
(* Diag and DiagWithLoc *)

DupTitle(node) == [kind |-> "DupTitle", title |-> node]
DupHeading(node) == [kind |-> "DupHeading", heading |-> node]
BrokenInternLinkToNote(name) ==
    [kind |-> "BrokenInternLinkToNote", linked_note |-> name]
BrokenInternLinkToHeading(name, text) ==
    [kind |-> "BrokenInternLinkToHeading", linked_note |-> name, heading |-> text]

\* stands for the backquote of the message templates, which a TLA+ string
\* cannot hold
Tick == "'"

to_message(d) ==
    CASE d.kind = "DupTitle" ->
           "Duplicate title " \o Tick \o d.title.text \o Tick
             \o ". Each note should have at most one title"
      [] d.kind = "DupHeading" ->
           "Duplicate heading " \o Tick \o d.heading.text \o Tick
      [] d.kind = "BrokenInternLinkToNote" ->
           "Reference to non-existent note " \o Tick \o d.linked_note \o Tick
      [] d.kind = "BrokenInternLinkToHeading" ->
           "Reference to non-existent heading " \o Tick \o d.linked_note
             \o Tick \o d.heading

----------------------------------------------------------------------------
(* The rules *)

\* the closures handed to headings_matching
IsTitle == {hd \in HeadingData : hd.level = 1}
IsSubHeading == {hd \in HeadingData : hd.level > 1}
HasText(text) == {hd \in HeadingData : hd.text = text}

Skip1_None(s) == s

\* Iterator::skip(1)
Skip1(s) == IF s = <<>> THEN <<>> ELSE Tail(s)

check_title(hs) ==
    LET hd_ids == headings_matching(hs, IsTitle)
        dups == Skip1(headings_with_ids(hs, hd_ids))
    IN  [k \in 1..Len(dups) |-> <<DupTitle(dups[k]), dups[k].span>>]

\* check_headings: the ids the worklist starts from
InitialWorklist(hs) == Range(headings_matching(hs, IsSubHeading))

\* check_headings: the ids of the headings with the text of cur_id, cur_id left out
SimilarTextIds(hs, cur_id) ==
    LET cur_hd == heading_by_id(hs, cur_id)
        NotCur(id) == id # cur_id
    IN  SelectSeq(headings_matching(hs, HasText(cur_hd.text)), NotCur)

RemoveInspected_KeepCur(worklist, cur_id, similar_text_ids) ==
    worklist \ Range(similar_text_ids)

\* check_headings: the worklist after the removals of one iteration
RemoveInspected(worklist, cur_id, similar_text_ids) ==
    (worklist \ {cur_id}) \ Range(similar_text_ids)

\* check_headings: the final map of the duplicates to diagnostics
DuplicateDiags(dups) ==
    [k \in 1..Len(dups) |-> <<DupHeading(dups[k]), dups[k].span>>]

\* the effective target name of a link
TargetName(intern_link) ==
    IF IsSome(intern_link.note_name) THEN Unwrap(intern_link.note_name) ELSE CurName

CheckLink_AlsoHeading(vlt, hs, isIndexed, intern_link) ==
    LET target_name == TargetName(intern_link)
        target_id == find_by_name(vlt, isIndexed, target_name)
        heading_diag ==
            IF IsSome(intern_link.heading)
               /\ (target_id = None
                   \/ heading_with_text(vlt, hs, Unwrap(target_id),
                                        Unwrap(intern_link.heading)) = None)
            THEN << <<BrokenInternLinkToHeading(target_name,
                                                Unwrap(intern_link.heading)),
                      intern_link.span>> >>
            ELSE <<>>
    IN  IF IsSome(target_id) THEN heading_diag
        ELSE << <<BrokenInternLinkToNote(target_name), intern_link.span>> >>
               \o heading_diag

CheckLink_RawName(vlt, hs, isIndexed, intern_link) ==
    LET target_name == TargetName(intern_link)
        raw_name == IF IsSome(intern_link.note_name)
                    THEN Unwrap(intern_link.note_name) ELSE ""
        target_id == find_by_name(vlt, isIndexed, target_name)
    IN  IF IsSome(target_id)
        THEN IF IsSome(intern_link.heading)
                /\ heading_with_text(vlt, hs, Unwrap(target_id),
                                     Unwrap(intern_link.heading)) = None
             THEN << <<BrokenInternLinkToHeading(raw_name,
                                                 Unwrap(intern_link.heading)),
                       intern_link.span>> >>
             ELSE <<>>
        ELSE << <<BrokenInternLinkToNote(target_name), intern_link.span>> >>

CheckLink_IsSome(vlt, hs, isIndexed, intern_link) ==
    LET target_name == TargetName(intern_link)
        target_id == find_by_name(vlt, isIndexed, target_name)
    IN  IF IsSome(target_id)
        THEN IF IsSome(intern_link.heading)
                /\ heading_with_text(vlt, hs, Unwrap(target_id),
                                     Unwrap(intern_link.heading)) # None
             THEN << <<BrokenInternLinkToHeading(target_name,
                                                 Unwrap(intern_link.heading)),
                       intern_link.span>> >>
             ELSE <<>>
        ELSE << <<BrokenInternLinkToNote(target_name), intern_link.span>> >>

\* check_intern_links: the body of the for loop, the diagnostics pushed for one link
CheckLink(vlt, hs, isIndexed, intern_link) ==
    LET target_name == TargetName(intern_link)
        target_id == find_by_name(vlt, isIndexed, target_name)
    IN  IF IsSome(target_id)
        THEN IF IsSome(intern_link.heading)
                /\ heading_with_text(vlt, hs, Unwrap(target_id),
                                     Unwrap(intern_link.heading)) = None
             THEN << <<BrokenInternLinkToHeading(target_name,
                                                 Unwrap(intern_link.heading)),
                       intern_link.span>> >>
             ELSE <<>>
        ELSE << <<BrokenInternLinkToNote(target_name), intern_link.span>> >>

RECURSIVE PushAll(_, _, _, _, _)
PushAll(vlt, hs, isIndexed, intern_links, k) ==
    IF k > Len(intern_links) THEN <<>>
    ELSE CheckLink(vlt, hs, isIndexed, intern_links[k])
           \o PushAll(vlt, hs, isIndexed, intern_links, k + 1)

check_intern_links(vlt, hs, ls, isIndexed) ==
    PushAll(vlt, hs, isIndexed, intern_links_with_ids(hs, ls), 1)

----------------------------------------------------------------------------
(* to_publish *)

\* store::Version
Fs == <<"Fs">>
Vs(n) == <<"Vs", n>>

to_lsp_version(v) == IF v[1] = "Vs" THEN Some(v[2]) ELSE None

\* IndexedText::range_to_lsp_range against a text of `lines` lines
range_to_lsp_range(lines, r) ==
    IF r[1] <= lines /\ r[2] <= lines
    THEN Some([start |-> [line |-> r[1], character |-> 0],
               end |-> [line |-> r[2], character |-> 0]])
    ELSE None

\* the lsp_types::Diagnostic built for one cached diagnostic
ToDiagnostic(lines, dl) ==
    [range |-> Unwrap(range_to_lsp_range(lines, dl[2])),
     severity |-> Some("ERROR"),
     message |-> to_message(dl[1])]

\* the cached diagnostics the filter_map keeps
Translated(lines, diags) ==
    {dl \in diags : IsSome(range_to_lsp_range(lines, dl[2]))}

\* the Vec collected from the HashSet, up to the order of its elements
LspDiags(lines, diags) ==
    LET kept == Translated(lines, diags)
        img == {ToDiagnostic(lines, dl) : dl \in kept}
    IN  [x \in img |-> Cardinality({dl \in kept : ToDiagnostic(lines, dl) = x})]

to_publish_AllOrNothing(isIndexed, diags, hs, ls, ver) ==
    IF ~isIndexed \/ Translated(TextLines(hs, ls), diags) # diags THEN None
    ELSE Some([uri |-> "file://" \o CurFile,
               diagnostics |-> LspDiags(TextLines(hs, ls), diags),
               version |-> to_lsp_version(ver)])

to_publish(isIndexed, diags, hs, ls, ver) ==
    IF ~isIndexed THEN None
    ELSE Some([uri |-> "file://" \o CurFile,
               diagnostics |-> LspDiags(TextLines(hs, ls), diags),
               version |-> to_lsp_version(ver)])

----------------------------------------------------------------------------
(* The state machine *)

Vaults == {<<>>, [n \in {OtherName} |-> {"a"}]}

NotCalled == [called |-> FALSE]
Returned(v) == [called |-> TRUE, value |-> v]

InitRun ==
    /\ version = Fs
    /\ indexed = TRUE
    /\ pc = "idle"
    /\ hd_ids_to_inspect = {}
    /\ duplicates = <<>>
    /\ iters = 0
    /\ title_diags = <<>>
    /\ heading_diags = <<>>
    /\ link_diags = <<>>
    /\ store = None
    /\ store_version = Fs
    /\ previous = None
    /\ report = NotCalled

H(l, t) == [level |-> l, text |-> t]
L(n, h) == [note_name |-> n, heading |-> h]

\* a few link lists, for the runs that vary the headings
SampleLinks == {<<>>, <<L(None, Some("a"))>>}

\* a few heading lists, for the runs that vary the links
SampleHeadings == {<<>>, <<H(2, "a")>>, <<H(1, "b"), H(2, "b"), H(3, "b")>>}

\* the heading lists an edit may leave
EditHeadings == SampleHeadings \cup {<<H(2, "a"), H(2, "a")>>, <<H(1, "a"), H(1, "a")>>}

\* every note of up to MaxHeadings headings
Init ==
    /\ headings \in SeqsUpTo(HeadingData, MaxHeadings)
    /\ links \in SampleLinks
    /\ vault = [n \in {OtherName} |-> {"a"}]
    /\ InitRun

\* every list of up to MaxLinks links, in every vault
InitLinks ==
    /\ headings \in SampleHeadings
    /\ links \in SeqsUpTo(LinkData, MaxLinks)
    /\ vault \in Vaults
    /\ InitRun

\* one note, which the edits then change
InitPublish ==
    /\ headings = <<H(2, "a"), H(2, "a")>>
    /\ links = <<>>
    /\ vault = [n \in {OtherName} |-> {"a"}]
    /\ InitRun

facts == <<headings, links, vault, version, indexed>>
cache == <<store, store_version, previous>>
loop == <<hd_ids_to_inspect, duplicates, iters>>

\* the driver runs check_title on the current note
CheckTitle ==
    /\ pc = "idle"
    /\ indexed
    /\ title_diags' = check_title(headings)
    /\ pc' = "check_headings"
    /\ report' = NotCalled
    /\ UNCHANGED <<facts, cache, loop, heading_diags, link_diags>>

\* check_headings up to the while loop
CheckHeadingsStart ==
    /\ pc = "check_headings"
    /\ hd_ids_to_inspect' = InitialWorklist(headings)
    /\ duplicates' = <<>>
    /\ iters' = 0
    /\ pc' = "loop"
    /\ UNCHANGED <<facts, cache, title_diags, heading_diags, link_diags, report>>

\* one iteration of the while loop: the HashSet's iterator yields any of its ids
CheckHeadingsIter ==
    /\ pc = "loop"
    /\ \E cur_id \in hd_ids_to_inspect :
         LET similar_text_ids == SimilarTextIds(headings, cur_id)
         IN  /\ hd_ids_to_inspect' =
                   RemoveInspected(hd_ids_to_inspect, cur_id, similar_text_ids)
             /\ duplicates' =
                   duplicates \o headings_with_ids(headings, similar_text_ids)
    /\ iters' = iters + 1
    /\ UNCHANGED <<facts, cache, pc, title_diags, heading_diags, link_diags, report>>

\* the loop ends on the empty worklist; check_headings returns its diagnostics
CheckHeadingsEnd ==
    /\ pc = "loop"
    /\ hd_ids_to_inspect = {}
    /\ heading_diags' = DuplicateDiags(duplicates)
    /\ pc' = "check_intern_links"
    /\ UNCHANGED <<facts, cache, loop, title_diags, link_diags, report>>

CheckInternLinks ==
    /\ pc = "check_intern_links"
    /\ link_diags' = check_intern_links(vault, headings, links, indexed)
    /\ pc' = "replace"
    /\ UNCHANGED <<facts, cache, loop, title_diags, heading_diags, report>>

\* the set of DiagWithLoc the cycle produced
Computed == Range(title_diags) \cup Range(heading_diags) \cup Range(link_diags)

\* the driver replaces the file's set in the DiagCollection
Replace ==
    /\ pc = "replace"
    /\ store' = Some(Computed)
    /\ store_version' = version
    /\ previous' = IF IsSome(store) /\ store_version = version THEN store ELSE None
    /\ pc' = "idle"
    /\ hd_ids_to_inspect' = {}
    /\ duplicates' = <<>>
    /\ iters' = 0
    /\ title_diags' = <<>>
    /\ heading_diags' = <<>>
    /\ link_diags' = <<>>
    /\ UNCHANGED <<facts, report>>

\* number of edits a version stands for
Revision(v) == IF v = Fs THEN 0 ELSE v[2]

\* an edit of the note: a new text revision, position index and structure
Edit ==
    /\ pc = "idle"
    /\ indexed
    /\ Revision(version) < MaxVersion
    /\ headings' \in EditHeadings
    /\ links' \in SampleLinks
    /\ version' = Vs(Revision(version) + 1)
    /\ report' = NotCalled
    /\ UNCHANGED <<vault, indexed, cache, pc, loop, title_diags, heading_diags,
                   link_diags>>

\* the file leaves the note index
Close ==
    /\ pc = "idle"
    /\ indexed
    /\ indexed' = FALSE
    /\ report' = NotCalled
    /\ UNCHANGED <<headings, links, vault, version, cache, pc, loop, title_diags,
                   heading_diags, link_diags>>

\* the driver builds the report of the file from its cached set
Publish ==
    /\ pc = "idle"
    /\ IsSome(store)
    /\ report' = Returned(to_publish(indexed, Unwrap(store), headings, links,
                                      version))
    /\ UNCHANGED <<facts, cache, pc, loop, title_diags, heading_diags, link_diags>>

Next ==
    \/ CheckTitle
    \/ CheckHeadingsStart
    \/ CheckHeadingsIter
    \/ CheckHeadingsEnd
    \/ CheckInternLinks
    \/ Replace

NextPublish ==
    \/ Next
    \/ Edit
    \/ Close
    \/ Publish

Spec == Init /\ [][Next]_vars
SpecLinks == InitLinks /\ [][Next]_vars
SpecPublish == InitPublish /\ [][NextPublish]_vars

----------------------------------------------------------------------------
(* Properties of check_title *)

TitleComputed == pc \in {"check_headings", "loop", "check_intern_links", "replace"}
HeadingsComputed == pc \in {"check_intern_links", "replace"}
LinksComputed == pc = "replace"

TitleIds == {i \in 1..Len(headings) : headings[i].level = 1}
SubIds == {i \in 1..Len(headings) : headings[i].level > 1}

\* C1: check_title returns max(n-1, 0) DupTitle diagnostics for the n level-1
\* headings: the k-th diagnostic is the (k+1)-th level-1 heading of the
\* document, at its own span; the first title and the headings of level > 1
\* are never reported.
C1_TitleDuplicates ==
    TitleComputed =>
        LET n == Cardinality(TitleIds)
        IN  /\ Len(title_diags) = (IF n = 0 THEN 0 ELSE n - 1)
            /\ \A k \in 1..Len(title_diags) :
                  \E i \in TitleIds :
                     /\ Cardinality({j \in TitleIds : j < i}) = k
                     /\ title_diags[k] =
                          << [kind |-> "DupTitle",
                              title |-> [level |-> 1, text |-> headings[i].text,
                                         span |-> <<i - 1, i>>]],
                             <<i - 1, i>> >>

\* two titles around a heading of level > 1: the second title alone is reported
C1_Witness ==
    /\ TitleComputed
    /\ Len(headings) = 3
    /\ headings[1].level = 1 /\ headings[2].level > 1 /\ headings[3].level = 1
    /\ Len(title_diags) = 1
    /\ title_diags[1][2] = <<2, 3>>

----------------------------------------------------------------------------
(* Properties of check_headings *)

\* the headings of level > 1 with the text t
Group(t) == {i \in SubIds : headings[i].text = t}

\* the positions of heading_diags that report the heading id
ReportsOf(id) == {k \in 1..Len(heading_diags) : heading_diags[k][2] = <<id - 1, id>>}

\* C2: check_headings returns, for each group of same-text headings of level
\* > 1, exactly (groupSize - 1) DupHeading diagnostics, each for a distinct
\* member of the group at its span, none for a singleton group, and no others.
C2_GroupCounts ==
    HeadingsComputed =>
        /\ \A k \in 1..Len(heading_diags) :
              \E i \in SubIds :
                 heading_diags[k] =
                    << [kind |-> "DupHeading",
                        heading |-> [level |-> headings[i].level,
                                     text |-> headings[i].text,
                                     span |-> <<i - 1, i>>]],
                       <<i - 1, i>> >>
        /\ \A i \in SubIds : Cardinality(ReportsOf(i)) <= 1
        /\ \A t \in Texts :
              Cardinality(UNION {ReportsOf(i) : i \in Group(t)}) =
                 (IF Group(t) = {} THEN 0 ELSE Cardinality(Group(t)) - 1)

\* C3: in every group of more than one same-text heading of level > 1 the
\* first member in document order is the one check_headings leaves unreported,
\* whatever order the worklist is iterated in.
C3_FirstIsCanonical ==
    HeadingsComputed =>
        \A t \in Texts :
           Cardinality(Group(t)) > 1 => ReportsOf(Min(Group(t))) = {}

\* C8: a second cycle on the same snapshot stores the set the first one stored.
C8_Idempotent ==
    IsSome(previous) => Unwrap(store) = Unwrap(previous)

LoopInv ==
    /\ pc = "loop" =>
          /\ hd_ids_to_inspect \subseteq SubIds
          /\ iters = 0 => hd_ids_to_inspect = SubIds
          /\ iters + Cardinality(hd_ids_to_inspect) <= Cardinality(SubIds)
    /\ HeadingsComputed =>
          hd_ids_to_inspect = {} /\ iters <= Cardinality(SubIds)

\* C10: the while loop of check_headings terminates: it starts from the ids of
\* all the headings of level > 1, every iteration shrinks the worklist by at
\* least the picked id and adds nothing, the iterations made plus the ids left
\* never exceed the number of headings of level > 1, and the loop is left with
\* the worklist empty.
C10_LoopTerminates ==
    [][/\ pc = "loop" /\ pc' = "loop" =>
            /\ hd_ids_to_inspect' \subseteq hd_ids_to_inspect
            /\ hd_ids_to_inspect' # hd_ids_to_inspect
            /\ iters' = iters + 1
       /\ LoopInv']_vars

\* the loop was left after two iterations over three headings of level > 1
C10_Witness ==
    /\ HeadingsComputed
    /\ Cardinality(SubIds) = 3
    /\ iters = 2
    /\ Len(heading_diags) = 1

----------------------------------------------------------------------------
(* Properties of check_intern_links *)

Resolves(name) == IF name = CurName THEN indexed ELSE name \in DOMAIN vault

HasHeading(name, t) ==
    IF name = CurName THEN \E i \in 1..Len(headings) : headings[i].text = t
    ELSE t \in vault[name]

EffectiveName(j) ==
    IF links[j].note_name = None THEN CurName ELSE links[j].note_name[1]

SpanOfLink(j) == <<Len(headings) + j - 1, Len(headings) + j>>

\* the positions of link_diags that report the link j
LinkReports(j) == {k \in 1..Len(link_diags) : link_diags[k][2] = SpanOfLink(j)}

\* C4: a link whose effective target name is not in the index gets exactly one
\* diagnostic, BrokenInternLinkToNote with that name at the link's span, and
\* no BrokenInternLinkToHeading, also when it names a heading.
C4_BrokenNote ==
    LinksComputed =>
        \A j \in 1..Len(links) :
           ~Resolves(EffectiveName(j)) =>
              /\ Cardinality(LinkReports(j)) = 1
              /\ \A k \in LinkReports(j) :
                    link_diags[k] =
                       << [kind |-> "BrokenInternLinkToNote",
                           linked_note |-> EffectiveName(j)],
                          SpanOfLink(j) >>

\* a link to a heading of a note the index does not have was checked
C4_Witness ==
    /\ LinksComputed
    /\ \E j \in 1..Len(links) :
          /\ links[j].note_name = Some(OtherName)
          /\ links[j].heading # None
          /\ OtherName \notin DOMAIN vault
          /\ LinkReports(j) # {}

\* C5: a link that resolves to a note and names a heading text the note does
\* not have gets exactly one diagnostic, BrokenInternLinkToHeading with the
\* resolved note name (the current note's own name for a self-link) and the
\* requested text, at the link's span.
C5_BrokenHeading ==
    LinksComputed =>
        \A j \in 1..Len(links) :
           (/\ Resolves(EffectiveName(j))
            /\ links[j].heading # None
            /\ ~HasHeading(EffectiveName(j), links[j].heading[1])) =>
              /\ Cardinality(LinkReports(j)) = 1
              /\ \A k \in LinkReports(j) :
                    link_diags[k] =
                       << [kind |-> "BrokenInternLinkToHeading",
                           linked_note |-> EffectiveName(j),
                           heading |-> links[j].heading[1]],
                          SpanOfLink(j) >>

\* a self-link to a heading the current note does not have was reported
C5_Witness ==
    /\ LinksComputed
    /\ \E j \in 1..Len(links) :
          /\ links[j].note_name = None
          /\ links[j].heading = Some("a")
          /\ headings # <<>>
          /\ \E k \in LinkReports(j) : link_diags[k][1].linked_note = CurName

\* C6: a link that resolves to a note and names no heading, or a heading the
\* note has, gets no diagnostic; so a self-link to a heading of the current
\* note gets none.
C6_SoundLink ==
    LinksComputed =>
        \A j \in 1..Len(links) :
           (/\ Resolves(EffectiveName(j))
            /\ \/ links[j].heading = None
               \/ HasHeading(EffectiveName(j), links[j].heading[1])) =>
              LinkReports(j) = {}

\* a self-link to a heading of the current note was checked, next to a broken one
C6_Witness ==
    /\ LinksComputed
    /\ Len(links) = 2
    /\ links[1].note_name = None
    /\ links[1].heading = Some("a")
    /\ \E i \in 1..Len(headings) : headings[i].text = "a"
    /\ Len(link_diags) = 1

----------------------------------------------------------------------------
(* Properties of to_publish *)

\* C7: to_publish returns None for a file that is not in the index; for one
\* that is, a report with as many diagnostics as cached diagnostics whose span
\* lies in the current text, all of severity ERROR, stamped with the note's
\* current version.
C7_Report ==
    report.called =>
        IF ~indexed THEN report.value = None
        ELSE /\ report.value # None
             /\ LET r == report.value[1]
                     lines == Len(headings) + Len(links)
                 IN  /\ BagCardinality(r.diagnostics) =
                           Cardinality({dl \in store[1] :
                                           dl[2][1] <= lines /\ dl[2][2] <= lines})
                     /\ \A x \in BagToSet(r.diagnostics) : x.severity = Some("ERROR")
                     /\ r.version = (IF version = Fs THEN None ELSE Some(version[2]))

\* a report that kept one cached diagnostic and dropped another
C7_Witness ==
    /\ report.called
    /\ indexed
    /\ report.value # None
    /\ BagCardinality(report.value[1].diagnostics) >= 1
    /\ BagCardinality(report.value[1].diagnostics) < Cardinality(store[1])

\* C9: a diagnostic cached from another revision than the one to_publish is
\* handed is dropped, never published under the newer revision stamp.
C9_StaleDropped ==
    (report.called /\ report.value # None /\ store_version # version) =>
        report.value[1].diagnostics = EmptyBag

====
